---- MODULE Spec2Model ----
(***************************************************************************)
(* A model of databricks_apps_scheduler/cli.py: the schedule resolver      *)
(* (parse_app_names, parse_active_days, resolve_now, resolve_action) and   *)
(* the reconciliation driver main(), run against a remote apps directory.  *)
(*                                                                         *)
(* Text that the code inspects character by character (the --app-names,    *)
(* --active-days and hour arguments, lifecycle state names) is a sequence  *)
(* of one-character strings; text that the code only compares or echoes    *)
(* (the action mode, the timezone name) is a TLA+ string.                  *)
(***************************************************************************)
EXTENDS Integers, Sequences, FiniteSets, TLC

(***************************************************************************)
(* str helpers                                                             *)
(***************************************************************************)
LowerLetters ==
    <<"a","b","c","d","e","f","g","h","i","j","k","l","m",
      "n","o","p","q","r","s","t","u","v","w","x","y","z">>

UpperLetters ==
    <<"A","B","C","D","E","F","G","H","I","J","K","L","M",
      "N","O","P","Q","R","S","T","U","V","W","X","Y","Z">>

Digits == <<"0","1","2","3","4","5","6","7","8","9">>

UpperChar(c) ==
    IF \E i \in 1..26 : LowerLetters[i] = c
    THEN UpperLetters[CHOOSE i \in 1..26 : LowerLetters[i] = c]
    ELSE c

LowerChar(c) ==
    IF \E i \in 1..26 : UpperLetters[i] = c
    THEN LowerLetters[CHOOSE i \in 1..26 : UpperLetters[i] = c]
    ELSE c

\* str.upper()
Upper(s) == [i \in 1..Len(s) |-> UpperChar(s[i])]

\* str.lower()
Lower(s) == [i \in 1..Len(s) |-> LowerChar(s[i])]

IsSpace(c) == c = " "

\* str.strip(): leading and trailing whitespace removed
Strip(s) ==
    IF \A i \in 1..Len(s) : IsSpace(s[i])
    THEN <<>>
    ELSE LET first == CHOOSE i \in 1..Len(s) :
                          ~IsSpace(s[i]) /\ \A j \in 1..(i - 1) : IsSpace(s[j])
             last  == CHOOSE i \in 1..Len(s) :
                          ~IsSpace(s[i]) /\ \A j \in (i + 1)..Len(s) : IsSpace(s[j])
         IN  SubSeq(s, first, last)

\* str.split(","): the parts between commas, always at least one part
RECURSIVE SplitComma(_)
SplitComma(s) ==
    IF \E i \in 1..Len(s) : s[i] = ","
    THEN LET i == CHOOSE k \in 1..Len(s) :
                      s[k] = "," /\ \A j \in 1..(k - 1) : s[j] # ","
         IN  <<SubSeq(s, 1, i - 1)>> \o SplitComma(SubSeq(s, i + 1, Len(s)))
    ELSE <<s>>

StartsWith(s, p) == Len(s) >= Len(p) /\ SubSeq(s, 1, Len(p)) = p

\* str.replace(old, ""): every non-overlapping occurrence removed, left to right
RECURSIVE Remove(_, _)
Remove(s, old) ==
    IF s = <<>> THEN <<>>
    ELSE IF StartsWith(s, old) THEN Remove(SubSeq(s, Len(old) + 1, Len(s)), old)
    ELSE <<s[1]>> \o Remove(SubSeq(s, 2, Len(s)), old)

IsDigit(c) == \E i \in 1..10 : Digits[i] = c

DigitValue(c) == (CHOOSE i \in 1..10 : Digits[i] = c) - 1

RECURSIVE DigitsValue(_)
DigitsValue(s) ==
    IF s = <<>> THEN 0
    ELSE DigitsValue(SubSeq(s, 1, Len(s) - 1)) * 10 + DigitValue(s[Len(s)])

ParseDigits(negative, body) ==
    IF body # <<>> /\ \A i \in 1..Len(body) : IsDigit(body[i])
    THEN [ok |-> TRUE,
          value |-> IF negative THEN 0 - DigitsValue(body) ELSE DigitsValue(body)]
    ELSE [ok |-> FALSE, value |-> 0]

ParseStripped(t) ==
    IF t # <<>> /\ t[1] \in {"+", "-"}
    THEN ParseDigits(t[1] = "-", SubSeq(t, 2, Len(t)))
    ELSE ParseDigits(FALSE, t)

\* int(text): surrounding whitespace ignored, an optional sign, then decimal
\* digits; anything else is a ValueError (ok = FALSE).
ParseInt(text) == ParseStripped(Strip(text))

(***************************************************************************)
(* Schedule resolver                                                       *)
(***************************************************************************)
StripAll(parts) == [i \in 1..Len(parts) |-> Strip(parts[i])]

\* _csv_tokens: split on commas, strip each part, drop the empty ones
_csv_tokens(raw) == SelectSeq(StripAll(SplitComma(raw)), LAMBDA t : t # <<>>)

\* the first occurrence of each element, in order
RECURSIVE FirstSeen(_)
FirstSeen(toks) ==
    IF toks = <<>> THEN <<>>
    ELSE <<toks[1]>> \o FirstSeen(SelectSeq(Tail(toks), LAMBDA t : t # toks[1]))

\* parse_app_names: the tokens, first occurrence of each, in order
parse_app_names(raw) == FirstSeen(_csv_tokens(raw))

ALL_TEXT == <<"a","l","l">>

DayInRange(parsed) == parsed.ok /\ parsed.value >= 0 /\ parsed.value <= 6

\* parse_active_days, the loop over the tokens: the first token that is no
\* integer in 0..6 raises; so does an empty result
DaysOfTokens(toks) ==
    IF \E i \in 1..Len(toks) : ~DayInRange(ParseInt(toks[i]))
    THEN [ok |-> FALSE, days |-> {}]
    ELSE IF toks = <<>>
    THEN [ok |-> FALSE, days |-> {}]
    ELSE [ok |-> TRUE, days |-> {ParseInt(toks[i]).value : i \in 1..Len(toks)}]

\* parse_active_days: ok with the set of weekdays, or the ValueError
parse_active_days(raw) ==
    IF Lower(Strip(raw)) \in {<<>>, ALL_TEXT}
    THEN [ok |-> TRUE, days |-> 0..6]
    ELSE DaysOfTokens(_csv_tokens(raw))

\* resolve_action with the end hour of an overnight window taken as inclusive
resolve_action_end_inclusive(now_local, start_hour, end_hour, active_days) ==
    IF now_local.weekday \notin active_days THEN "stop"
    ELSE IF start_hour = end_hour THEN "start"
    ELSE IF start_hour < end_hour
         THEN (IF start_hour <= now_local.hour /\ now_local.hour < end_hour
               THEN "start" ELSE "stop")
         ELSE (IF now_local.hour >= start_hour \/ now_local.hour <= end_hour
               THEN "start" ELSE "stop")

\* resolve_action: the decision for a local instant and a window
resolve_action(now_local, start_hour, end_hour, active_days) ==
    IF now_local.weekday \notin active_days THEN "stop"
    ELSE IF start_hour = end_hour THEN "start"
    ELSE IF start_hour < end_hour
         THEN (IF start_hour <= now_local.hour /\ now_local.hour < end_hour
               THEN "start" ELSE "stop")
         ELSE (IF now_local.hour >= start_hour \/ now_local.hour < end_hour
               THEN "start" ELSE "stop")

UTC_OFFSETS == [tz \in {"UTC", "Europe/Stockholm"} |->
                   IF tz = "UTC" THEN 0 ELSE 1]

\* ZoneInfo(name): the zones of the tz database this model knows (winter
\* offsets, in hours); any other name raises ZoneInfoNotFoundError.
ZoneInfo(name) ==
    IF name \in DOMAIN UTC_OFFSETS
    THEN [ok |-> TRUE, key |-> name, utcoffset |-> UTC_OFFSETS[name]]
    ELSE [ok |-> FALSE, key |-> name, utcoffset |-> 0]

\* datetime.astimezone / datetime.now(tz): an instant given at UTC offset
\* `off` (in hours), read on the wall clock of zone tz.
astimezone(weekday, hour, off, tz) ==
    LET total == hour - off + tz.utcoffset
    IN  IF total < 0 THEN [weekday |-> (weekday + 6) % 7, hour |-> total + 24]
        ELSE IF total > 23 THEN [weekday |-> (weekday + 1) % 7, hour |-> total - 24]
        ELSE [weekday |-> weekday, hour |-> total]

\* The --now text is held as its date-time body (well-formed with a weekday
\* and an hour, or not) and its offset suffix: "", "Z", "+00:00", "+01:00".
NoNow == [given |-> FALSE, body_ok |-> TRUE, weekday |-> 0, hour |-> 0, suffix |-> ""]

NowText(weekday, hour, suffix) ==
    [given |-> TRUE, body_ok |-> TRUE, weekday |-> weekday, hour |-> hour,
     suffix |-> suffix]

BadNowText ==
    [given |-> TRUE, body_ok |-> FALSE, weekday |-> 0, hour |-> 0, suffix |-> ""]

SuffixOffsets == [s \in {"+00:00", "+01:00"} |-> IF s = "+00:00" THEN 0 ELSE 1]

\* datetime.fromisoformat of the normalized text, then the zone attached
\* (no offset in the text) or converted to (offset in the text)
FromIso(now_raw, normalized, tz) ==
    IF ~now_raw.body_ok \/ normalized \notin (DOMAIN SuffixOffsets \cup {""})
    THEN [ok |-> FALSE, at |-> [weekday |-> 0, hour |-> 0]]
    ELSE IF normalized = ""
    THEN [ok |-> TRUE, at |-> [weekday |-> now_raw.weekday, hour |-> now_raw.hour]]
    ELSE [ok |-> TRUE,
          at |-> astimezone(now_raw.weekday, now_raw.hour,
                            SuffixOffsets[normalized], tz)]

\* resolve_now: the evaluation instant in zone tz, or the ValueError.
\* clock is what datetime.now would read, as a UTC instant.
resolve_now(now_raw, tz, clock) ==
    IF ~now_raw.given
    THEN [ok |-> TRUE, at |-> astimezone(clock.weekday, clock.hour, 0, tz)]
    ELSE FromIso(now_raw, IF now_raw.suffix = "Z" THEN "+00:00" ELSE now_raw.suffix, tz)

(***************************************************************************)
(* The remote apps directory, as the driver sees it                        *)
(***************************************************************************)
\* An app's compute_status: absent (None), or carrying a state that is None,
\* an enum member (state.name is the text) or an object without a str name
\* (str(state) is the text).
NoStatus == [status |-> FALSE, kind |-> "none", text |-> <<>>]

NoState == [status |-> TRUE, kind |-> "none", text |-> <<>>]

EnumState(text) == [status |-> TRUE, kind |-> "enum", text |-> text]

OpaqueState(text) == [status |-> TRUE, kind |-> "opaque", text |-> text]

RUNNING_STATES == {<<"A","C","T","I","V","E">>, <<"S","T","A","R","T","I","N","G">>}

STOPPED_STATES == {<<"S","T","O","P","P","E","D">>, <<"S","T","O","P","P","I","N","G">>}

UNKNOWN == <<"U","N","K","N","O","W","N">>

COMPUTE_STATE_PREFIX == <<"C","o","m","p","u","t","e","S","t","a","t","e",".">>

\* _state_name without the upper-casing
_state_name_case_sensitive(app) ==
    IF ~app.compute_status.status \/ app.compute_status.kind = "none"
    THEN UNKNOWN
    ELSE IF app.compute_status.kind = "enum"
    THEN app.compute_status.text
    ELSE Remove(app.compute_status.text, COMPUTE_STATE_PREFIX)

\* _state_name: the upper-cased lifecycle state name of an app
_state_name(app) ==
    IF ~app.compute_status.status \/ app.compute_status.kind = "none"
    THEN UNKNOWN
    ELSE IF app.compute_status.kind = "enum"
    THEN Upper(app.compute_status.text)
    ELSE Upper(Remove(app.compute_status.text, COMPUTE_STATE_PREFIX))

Listed(listing, n) == \E i \in 1..Len(listing) : listing[i].name = n

\* the dict built from the listing: the last listed app of a name wins
ByName(listing, n) ==
    listing[CHOOSE i \in 1..Len(listing) :
                listing[i].name = n /\ \A j \in (i + 1)..Len(listing) : listing[j].name # n]

FoundApps(listing, found) == [i \in 1..Len(found) |-> ByName(listing, found[i])]

\* _select_target_apps: the requested names found in the listing (in request
\* order) and those not found
_select_target_apps(listing, names) ==
    [targets |-> FoundApps(listing, SelectSeq(names, LAMBDA n : Listed(listing, n))),
     missing |-> SelectSeq(names, LAMBDA n : ~Listed(listing, n))]

(***************************************************************************)
(* Command line                                                            *)
(***************************************************************************)
ACTION_CHOICES == {"auto", "start", "stop"}

OUTPUT_CHOICES == {"text", "json"}

Namespace(argv, sh, eh) ==
    [ok |-> sh.ok /\ eh.ok /\ argv.action \in ACTION_CHOICES
            /\ argv.output \in OUTPUT_CHOICES,
     app_names |-> argv.app_names,
     timezone |-> argv.timezone,
     start_hour |-> sh.value,
     end_hour |-> eh.value,
     active_days |-> argv.active_days,
     action |-> argv.action,
     now |-> argv.now,
     output |-> argv.output,
     dry_run |-> argv.dry_run,
     ignore_missing_apps |-> argv.ignore_missing_apps]

\* build_parser().parse_args: the hour options are converted with int and
\* --action / --output are checked against their choices; a failure is a
\* usage error (ok = FALSE). Everything else is taken as given.
parse_args(argv) == Namespace(argv, ParseInt(argv.start_hour), ParseInt(argv.end_hour))

\* the hour check without its lower bound
_validate_hour_no_lower_bound(value) == value <= 23

\* _validate_hour
_validate_hour(value) == 0 <= value /\ value <= 23

NoDays == [given |-> FALSE, days |-> {}]

NoInstant == [weekday |-> 0, hour |-> 0]

UsageError ==
    [ok |-> FALSE, app_names |-> <<>>, now_local |-> NoInstant,
     active_days |-> NoDays, action |-> ""]

\* main: the active days parsed and the action resolved (--action=auto)
WithDays(args, names, at, days) ==
    IF ~days.ok THEN UsageError
    ELSE [ok |-> TRUE, app_names |-> names, now_local |-> at,
          active_days |-> [given |-> TRUE, days |-> days.days],
          action |-> resolve_action(at, args.start_hour, args.end_hour, days.days)]

\* main: the instant resolved, then the action: resolved from the window
\* when --action=auto, else the forced one (--active-days is not parsed)
WithNow(args, names, now) ==
    IF ~now.ok THEN UsageError
    ELSE IF args.action = "auto"
    THEN WithDays(args, names, now.at, parse_active_days(args.active_days))
    ELSE [ok |-> TRUE, app_names |-> names, now_local |-> now.at,
          active_days |-> NoDays, action |-> args.action]

\* main: the timezone looked up
WithZone(args, names, tz, clock) ==
    IF ~tz.ok THEN UsageError
    ELSE WithNow(args, names, resolve_now(args.now, tz, clock))

\* main: the app names parsed
WithNames(args, names, clock) ==
    IF names = <<>> THEN UsageError
    ELSE WithZone(args, names, ZoneInfo(args.timezone), clock)

\* main, from parse_args to the selected action: the validated inputs, or
\* the usage error parser.error raises (SystemExit with code 2).
Prepare(args, clock) ==
    IF ~args.ok THEN UsageError
    ELSE IF ~_validate_hour(args.start_hour) THEN UsageError
    ELSE IF ~_validate_hour(args.end_hour) THEN UsageError
    ELSE WithNames(args, parse_app_names(args.app_names), clock)

\* sorted(set of integers)
RECURSIVE sorted(_)
sorted(S) ==
    IF S = {} THEN <<>>
    ELSE LET m == CHOOSE x \in S : \A y \in S : x <= y
         IN  <<m>> \o sorted(S \ {m})

\* _summary_payload
_summary_payload(act, args, at, names, apps_changed, apps_evaluated, exit_code, failed, missing, days) ==
    [action |-> act,
     action_mode |-> args.action,
     apps_changed |-> apps_changed,
     apps_evaluated |-> apps_evaluated,
     apps_requested |-> names,
     dry_run |-> args.dry_run,
     end_hour |-> args.end_hour,
     exit_code |-> exit_code,
     failures |-> failed,
     missing_apps |-> missing,
     output |-> args.output,
     start_hour |-> args.start_hour,
     time_local |-> at,
     timezone |-> args.timezone,
     has_active_days |-> days.given,
     active_days |-> IF days.given THEN sorted(days.days) ELSE <<>>]

(***************************************************************************)
(* State                                                                   *)
(***************************************************************************)
VARIABLES
    argv,         \* the command line of the invocation
    remote,       \* the workspace: app name -> [present, compute_status]
    pc,           \* where main() is, or how it ended
    runs,         \* invocations so far, this one included
    drifted,      \* the workspace changed on its own since this run ended
    history,      \* the earlier invocations: summary, targets, drift after
    app_names,    \* main's app_names
    now_local,    \* main's now_local
    active_days,  \* main's active_days (None unless --action=auto)
    action,       \* main's action
    client,       \* the WorkspaceClient has been constructed
    target_apps,  \* main's target_apps: the listing snapshot of the targets
    missing_apps, \* main's missing_apps
    idx,          \* the loop's position in target_apps
    updated,      \* main's updated
    failures,     \* main's failures
    calls,        \* the calls this run made to client.apps, in order
    emitted,      \* the payloads handed to emit_result
    stdout,       \* what emit_result printed
    returned      \* the exit code main ended with

vars ==
    <<argv, remote, pc, runs, drifted, history, app_names, now_local, active_days,
      action, client, target_apps, missing_apps, idx, updated, failures, calls,
      emitted, stdout, returned>>

MaxRuns == 2

NameA == <<"a">>

NameB == <<"b">>

AppNames == {NameA, NameB}

\* the order in which client.apps.list() yields the apps
ListOrder == <<NameA, NameB>>

Absent == [present |-> FALSE, compute_status |-> NoStatus]

Present(cs) == [present |-> TRUE, compute_status |-> cs]

ACTIVE == <<"A","C","T","I","V","E">>

STOPPED == <<"S","T","O","P","P","E","D">>

\* what the workspace may hold for an app when a run starts
RemoteInputs ==
    {Absent,
     Present(NoStatus),
     Present(NoState),
     Present(EnumState(STOPPED)),
     Present(EnumState(<<"a","c","t","i","v","e">>)),
     Present(EnumState(<<"E","R","R","O","R">>)),
     Present(EnumState(<<"S","t","a","r","t","i","n","g">>)),
     Present(OpaqueState(COMPUTE_STATE_PREFIX \o <<"S","T","O","P","P","I","N","G">>))}

\* the workspaces a run may start against: every input for app "a", and
\* app "b" absent or in an error state
RemoteInits ==
    {r \in [AppNames -> RemoteInputs] :
        r[NameB] \in {Absent, Present(EnumState(<<"E","R","R","O","R">>))}}

\* what an app may turn into on its own between two runs
DriftInputs == {Absent, Present(EnumState(STOPPED))}

\* what datetime.now may read (UTC): Monday 10:00, Sunday 23:00
ClockInstants == {[weekday |-> 0, hour |-> 10], [weekday |-> 6, hour |-> 23]}

\* --app-names values: "a"  "a,b"  "b, a,b"  " ,"
AppNameInputs ==
    {<<"a">>, <<"a",",","b">>, <<"b",","," ","a",",","b">>, <<" ",",">>}

\* --active-days values: "all"  "0"
DayInputs == {ALL_TEXT, <<"0">>}

\* hour values: "8" and "17"
StartHourInputs == {<<"8">>}

EndHourInputs == {<<"1","7">>}

\* --now values: Sunday 10:00, without offset
NowInputs == {NowText(6, 10, "")}

Argvs(names, zones, starts, ends, days, actions, nows, outputs, dry, ignore) ==
    [app_names : names, timezone : zones, start_hour : starts, end_hour : ends,
     active_days : days, action : actions, now : nows, output : outputs,
     dry_run : dry, ignore_missing_apps : ignore]

\* client.apps.list(): the apps present, in listing order
ListApps(r) ==
    LET here == SelectSeq(ListOrder, LAMBDA n : r[n].present)
    IN  [i \in 1..Len(here) |->
            [name |-> here[i], compute_status |-> r[here[i]].compute_status]]

\* the namespace main works with
Args == parse_args(argv)

Fresh ==
    /\ pc = "start"
    /\ app_names = <<>>
    /\ now_local = NoInstant
    /\ active_days = NoDays
    /\ action = ""
    /\ client = FALSE
    /\ target_apps = <<>>
    /\ missing_apps = <<>>
    /\ idx = 0
    /\ updated = 0
    /\ failures = 0
    /\ calls = <<>>
    /\ emitted = <<>>
    /\ stdout = <<>>
    /\ returned = <<>>

Init ==
    /\ argv \in Argvs(AppNameInputs, {"UTC"}, StartHourInputs, EndHourInputs,
                      DayInputs, {"auto"}, NowInputs, {"json"}, BOOLEAN, BOOLEAN)
                \cup Argvs(AppNameInputs, {"UTC"}, StartHourInputs, EndHourInputs,
                           {ALL_TEXT}, {"start", "stop"}, NowInputs, {"json"},
                           BOOLEAN, BOOLEAN)
    /\ remote \in RemoteInits
    /\ runs = 1
    /\ drifted = FALSE
    /\ history = <<>>
    /\ Fresh

(***************************************************************************)
(* main()                                                                  *)
(***************************************************************************)
\* emit_result, and the exit code returned
Emit(payload, exit_code, label) ==
    /\ emitted' = Append(emitted, payload)
    /\ stdout' = IF payload.output = "json" THEN Append(stdout, payload) ELSE stdout
    /\ returned' = <<exit_code>>
    /\ pc' = label

\* _emit_and_return: the payload goes to emit_result, which prints it when
\* --output=json, and the exit code is returned.
_emit_and_return(exit_code, apps_changed, apps_evaluated, failed, missing, label) ==
    Emit(_summary_payload(action, Args, now_local, app_names, apps_changed,
                          apps_evaluated, exit_code, failed, missing, active_days),
         exit_code, label)

\* a call made to client.apps: what, for which app, and whether it raised
Call(op, name, raised) == [op |-> op, name |-> name, raised |-> raised]

\* the setup failures reported like a partial failure
FailedSetup_as_partial(label) == _emit_and_return(1, 0, Len(app_names), 1, <<>>, label)

\* main: the exits for a client that cannot be loaded or constructed and for a
\* listing that fails
FailedSetup(label) == _emit_and_return(2, 0, 0, 1, <<>>, label)

\* main: the resolved inputs kept, or the usage error's exit
Resolved(p) ==
    IF p.ok
    THEN /\ app_names' = p.app_names
         /\ now_local' = p.now_local
         /\ active_days' = p.active_days
         /\ action' = p.action
         /\ pc' = "load_client"
         /\ UNCHANGED returned
    ELSE /\ pc' = "usage_error"
         /\ returned' = <<2>>
         /\ UNCHANGED <<app_names, now_local, active_days, action>>

\* main: arguments parsed and validated, the instant and the action resolved
\* (no remote call is made here); parser.error exits with code 2.
ParseAndResolve ==
    /\ pc = "start"
    /\ \E clock \in ClockInstants : Resolved(Prepare(Args, clock))
    /\ UNCHANGED <<argv, remote, runs, drifted, history, client, target_apps,
                   missing_apps, idx, updated, failures, calls, emitted, stdout>>

\* main: _workspace_client_class(); an ImportError ends the run with code 2
LoadClientClass ==
    /\ pc = "load_client"
    /\ \E raised \in BOOLEAN :
         IF raised
         THEN FailedSetup("failed_import")
         ELSE /\ pc' = "construct_client"
              /\ UNCHANGED <<emitted, stdout, returned>>
    /\ UNCHANGED <<argv, remote, runs, drifted, history, app_names, now_local,
                   active_days, action, client, target_apps, missing_apps, idx,
                   updated, failures, calls>>

\* main: the client is constructed; any exception ends the run with code 2
ConstructClient ==
    /\ pc = "construct_client"
    /\ \E raised \in BOOLEAN :
         IF raised
         THEN /\ FailedSetup("failed_client")
              /\ UNCHANGED client
         ELSE /\ client' = TRUE
              /\ pc' = "select"
              /\ UNCHANGED <<emitted, stdout, returned>>
    /\ UNCHANGED <<argv, remote, runs, drifted, history, app_names, now_local,
                   active_days, action, target_apps, missing_apps, idx, updated,
                   failures, calls>>

\* the abort with the --ignore-missing-apps flag read the wrong way round
AbortsOnMissing_flag_inverted(missing, args) ==
    missing # <<>> /\ args.ignore_missing_apps

\* main: the run is abandoned when a requested app is missing, unless
\* --ignore-missing-apps
AbortsOnMissing(missing, args) == missing # <<>> /\ ~args.ignore_missing_apps

\* apps_evaluated reported as 0, as on the other early exits
MissingEvaluated_zero(targets) == 0 * Len(targets)

\* main: apps_evaluated of the summary of a run abandoned for missing apps
MissingEvaluated(targets) == Len(targets)

\* main: the exit code when no target is left
NoTargetsExitCode(args) == IF args.ignore_missing_apps THEN 0 ELSE 1

\* main: after the listing: the missing-apps and no-targets exits, else on
\* to the loop
Selected(sel) ==
    /\ target_apps' = sel.targets
    /\ missing_apps' = sel.missing
    /\ IF AbortsOnMissing(sel.missing, Args)
       THEN /\ _emit_and_return(1, 0, MissingEvaluated(sel.targets), 0, sel.missing,
                                "aborted_missing")
            /\ UNCHANGED idx
       ELSE IF sel.targets = <<>>
       THEN /\ _emit_and_return(NoTargetsExitCode(Args), 0, 0, 0, sel.missing,
                                "no_targets")
            /\ UNCHANGED idx
       ELSE /\ idx' = 1
            /\ pc' = "loop"
            /\ UNCHANGED <<emitted, stdout, returned>>

\* main: _select_target_apps (one list call; an exception ends the run with
\* code 2), then the exits or the loop
SelectTargets ==
    /\ pc = "select"
    /\ \E raised \in BOOLEAN :
         /\ calls' = Append(calls, Call("list", <<>>, raised))
         /\ IF raised
            THEN /\ FailedSetup("failed_list")
                 /\ UNCHANGED <<target_apps, missing_apps, idx>>
            ELSE Selected(_select_target_apps(ListApps(remote), app_names))
    /\ UNCHANGED <<argv, remote, runs, drifted, history, app_names, now_local,
                   active_days, action, client, updated, failures>>

\* terminal_states without the transitional states
terminal_states_settled_only(act) ==
    IF act = "start" THEN {ACTIVE} ELSE {STOPPED}

\* main: terminal_states
terminal_states(act) == IF act = "start" THEN RUNNING_STATES ELSE STOPPED_STATES

\* the loop body without the try/except: a raising call ends the loop
ReconcileOne_break_on_error(loop, app, act, dry_run, raised) ==
    IF _state_name(app) \in terminal_states(act)
    THEN [loop EXCEPT !.idx = @ + 1]
    ELSE IF dry_run
    THEN [loop EXCEPT !.idx = @ + 1, !.updated = @ + 1]
    ELSE IF raised
    THEN [loop EXCEPT !.idx = Len(target_apps) + 1, !.failures = @ + 1,
                      !.calls = Append(@, Call(act, app.name, TRUE))]
    ELSE [loop EXCEPT !.idx = @ + 1, !.updated = @ + 1,
                      !.calls = Append(@, Call(act, app.name, FALSE))]

\* the loop body with the dry-run test left out
ReconcileOne_ignores_dry_run(loop, app, act, dry_run, raised) ==
    IF _state_name(app) \in terminal_states(act)
    THEN [loop EXCEPT !.idx = @ + 1]
    ELSE IF raised
    THEN [loop EXCEPT !.idx = @ + 1, !.failures = @ + 1,
                      !.calls = Append(@, Call(act, app.name, TRUE))]
    ELSE [loop EXCEPT !.idx = @ + 1, !.updated = @ + 1,
                      !.calls = Append(@, Call(act, app.name, FALSE))]

\* the loop body counting the change before the call is made: a call that
\* raises is counted as changed and as failed
ReconcileOne_counts_before_call(loop, app, act, dry_run, raised) ==
    IF _state_name(app) \in terminal_states(act)
    THEN [loop EXCEPT !.idx = @ + 1]
    ELSE IF dry_run
    THEN [loop EXCEPT !.idx = @ + 1, !.updated = @ + 1]
    ELSE IF raised
    THEN [loop EXCEPT !.idx = @ + 1, !.updated = @ + 1, !.failures = @ + 1,
                      !.calls = Append(@, Call(act, app.name, TRUE))]
    ELSE [loop EXCEPT !.idx = @ + 1, !.updated = @ + 1,
                      !.calls = Append(@, Call(act, app.name, FALSE))]

\* main: one pass of the loop body over `app`. loop holds idx, updated,
\* failures and the calls made; raised says whether action_fn raises.
ReconcileOne(loop, app, act, dry_run, raised) ==
    IF _state_name(app) \in terminal_states(act)
    THEN [loop EXCEPT !.idx = @ + 1]
    ELSE IF dry_run
    THEN [loop EXCEPT !.idx = @ + 1, !.updated = @ + 1]
    ELSE IF raised
    THEN [loop EXCEPT !.idx = @ + 1, !.failures = @ + 1,
                      !.calls = Append(@, Call(act, app.name, TRUE))]
    ELSE [loop EXCEPT !.idx = @ + 1, !.updated = @ + 1,
                      !.calls = Append(@, Call(act, app.name, FALSE))]

\* client.apps.start_and_wait / stop_and_wait returning normally: the app is
\* then active, or stopped
Transitioned(r, name, act) ==
    [r EXCEPT ![name] = IF ~r[name].present THEN r[name]
                        ELSE Present(EnumState(IF act = "start" THEN ACTIVE
                                               ELSE STOPPED))]

\* the loop's variables after a pass over app, and the workspace after a
\* transition call that returned normally
Stepped(app, next) ==
    /\ idx' = next.idx
    /\ updated' = next.updated
    /\ failures' = next.failures
    /\ calls' = next.calls
    /\ remote' = IF Len(next.calls) > Len(calls) /\ next.failures = failures
                 THEN Transitioned(remote, app.name, action)
                 ELSE remote

\* main: the loop body for the next target
ReconcileStep ==
    /\ pc = "loop"
    /\ idx <= Len(target_apps)
    /\ \E raised \in BOOLEAN :
         Stepped(target_apps[idx],
                 ReconcileOne([idx |-> idx, updated |-> updated,
                               failures |-> failures, calls |-> calls],
                              target_apps[idx], action, Args.dry_run, raised))
    /\ UNCHANGED <<argv, pc, runs, drifted, history, app_names, now_local,
                   active_days, action, client, target_apps, missing_apps, emitted,
                   stdout, returned>>

\* the exit code with the failures forgotten
FinalExitCode_always_zero(failed) == 0 * failed

\* main: the exit code after the loop
FinalExitCode(failed) == IF failed # 0 THEN 1 ELSE 0

\* main: after the loop, the summary and the exit code
Finish ==
    /\ pc = "loop"
    /\ idx > Len(target_apps)
    /\ _emit_and_return(FinalExitCode(failures), updated, Len(target_apps), failures,
                        missing_apps, "finished")
    /\ UNCHANGED <<argv, remote, runs, drifted, history, app_names, now_local,
                   active_days, action, client, target_apps, missing_apps, idx,
                   updated, failures, calls>>

SummaryPcs ==
    {"failed_import", "failed_client", "failed_list", "aborted_missing",
     "no_targets", "finished"}

TerminalPcs == SummaryPcs \cup {"usage_error"}

\* after a completed reconciliation the same command line is run again (a
\* scheduler's next trigger)
Reinvoke ==
    /\ pc = "finished"
    /\ runs < MaxRuns
    /\ runs' = runs + 1
    /\ history' = Append(history, [summary |-> emitted[1],
                                   targets |-> target_apps,
                                   drifted |-> drifted])
    /\ drifted' = FALSE
    /\ pc' = "start"
    /\ app_names' = <<>>
    /\ now_local' = NoInstant
    /\ active_days' = NoDays
    /\ action' = ""
    /\ client' = FALSE
    /\ target_apps' = <<>>
    /\ missing_apps' = <<>>
    /\ idx' = 0
    /\ updated' = 0
    /\ failures' = 0
    /\ calls' = <<>>
    /\ emitted' = <<>>
    /\ stdout' = <<>>
    /\ returned' = <<>>
    /\ UNCHANGED <<argv, remote>>

\* between two such runs an app of the workspace changes on its own
RemoteDrift ==
    /\ pc = "finished"
    /\ runs < MaxRuns
    /\ ~drifted
    /\ \E n \in AppNames, s \in DriftInputs :
         /\ remote[n] # s
         /\ remote' = [remote EXCEPT ![n] = s]
    /\ drifted' = TRUE
    /\ UNCHANGED <<argv, pc, runs, history, app_names, now_local, active_days,
                   action, client, target_apps, missing_apps, idx, updated,
                   failures, calls, emitted, stdout, returned>>

Next ==
    \/ ParseAndResolve
    \/ LoadClientClass
    \/ ConstructClient
    \/ SelectTargets
    \/ ReconcileStep
    \/ Finish
    \/ Reinvoke
    \/ RemoteDrift

Spec == Init /\ [][Next]_vars

(***************************************************************************)
(* Command lines with invalid inputs, against a small workspace            *)
(***************************************************************************)
\* --active-days values: "all"  ""  "ALL"  "0,2,4"  "7"  "x"  " , "  "1,-1"
UsageDayInputs ==
    {ALL_TEXT, <<>>, <<"A","L","L">>, <<"0",",","2",",","4">>, <<"7">>, <<"x">>,
     <<" ",","," ">>, <<"1",",","-","1">>}

\* hour values: "8" "22" "-1" "x" and "17" "6" "24"
UsageStartHourInputs == {<<"8">>, <<"2","2">>, <<"-","1">>, <<"x">>}

UsageEndHourInputs == {<<"1","7">>, <<"6">>, <<"2","4">>}

UsageZoneInputs == {"UTC", "Europe/Stockholm", "Mars/Phobos"}

\* --now values: none, Sunday 10:00, Sunday 23:00Z, Sunday 10:00+01:00, and
\* text that is no ISO-8601 date
UsageNowInputs ==
    {NoNow, NowText(6, 10, ""), NowText(6, 23, "Z"), NowText(6, 10, "+01:00"),
     BadNowText}

UsageRemotes ==
    {r \in [AppNames -> RemoteInputs] :
        /\ r[NameA] \in {Present(EnumState(STOPPED)), Present(EnumState(ACTIVE))}
        /\ r[NameB] = Absent}

InitUsage ==
    /\ argv \in Argvs({<<"a">>, <<" ",",">>}, UsageZoneInputs, UsageStartHourInputs,
                      UsageEndHourInputs, UsageDayInputs, ACTION_CHOICES,
                      UsageNowInputs, {"text"}, {FALSE}, {FALSE})
    /\ remote \in UsageRemotes
    /\ runs = 1
    /\ drifted = FALSE
    /\ history = <<>>
    /\ Fresh

SpecUsage == InitUsage /\ [][Next]_vars

(***************************************************************************)
(* resolve_action on its own, over every hour, weekday and window          *)
(***************************************************************************)
Hours == 0..23

Weekdays == 0..6

MaxActiveDays == 2

\* the active-day sets: every weekday, and the sets of up to MaxActiveDays days
ResolveDaySets ==
    {Weekdays} \cup {D \in SUBSET Weekdays : D # {} /\ Cardinality(D) <= MaxActiveDays}

InitResolve ==
    /\ argv \in [start_hour : Hours, end_hour : Hours]
    /\ active_days \in [given : {TRUE}, days : ResolveDaySets]
    /\ pc = "resolve"
    /\ now_local = NoInstant
    /\ action = ""
    /\ remote = [n \in AppNames |-> Absent]
    /\ runs = 1
    /\ drifted = FALSE
    /\ history = <<>>
    /\ app_names = <<>>
    /\ client = FALSE
    /\ target_apps = <<>>
    /\ missing_apps = <<>>
    /\ idx = 0
    /\ updated = 0
    /\ failures = 0
    /\ calls = <<>>
    /\ emitted = <<>>
    /\ stdout = <<>>
    /\ returned = <<>>

\* resolve_action applied to an instant of the week
ResolveStep ==
    /\ pc = "resolve"
    /\ \E at \in [weekday : Weekdays, hour : Hours] :
         /\ now_local' = at
         /\ action' = resolve_action(at, argv.start_hour, argv.end_hour,
                                     active_days.days)
    /\ pc' = "resolved"
    /\ UNCHANGED <<argv, remote, runs, drifted, history, app_names, active_days,
                   client, target_apps, missing_apps, idx, updated, failures, calls,
                   emitted, stdout, returned>>

SpecResolve == InitResolve /\ [][ResolveStep]_vars

(***************************************************************************)
(* Properties                                                              *)
(***************************************************************************)
\* the hour lies in the circular half-open interval [start_hour, end_hour)
InCircularWindow(hour, start_hour, end_hour) ==
    (hour - start_hour + 24) % 24 < (end_hour - start_hour + 24) % 24

\* C7: resolve_action returns stop whenever the weekday is not an active day,
\* whatever the hour; on an active day it returns start exactly when
\* start_hour = end_hour or the hour lies in the circular half-open interval
\* from start_hour (inclusive) forward modulo 24 to end_hour (exclusive), and
\* stop for every other hour.
C7_ResolveAction ==
    pc = "resolved" =>
        action = IF now_local.weekday \notin active_days.days THEN "stop"
                 ELSE IF argv.start_hour = argv.end_hour
                         \/ InCircularWindow(now_local.hour, argv.start_hour,
                                             argv.end_hour)
                      THEN "start"
                      ELSE "stop"

\* the overnight window 22..6 on an active day at 23:00 gives start
C7_Witness ==
    /\ pc = "resolved"
    /\ argv.start_hour = 22 /\ argv.end_hour = 6
    /\ now_local.hour = 23
    /\ now_local.weekday \in active_days.days
    /\ action = "start"

(***************************************************************************)
(* Vocabulary of the properties of main()                                  *)
(***************************************************************************)
\* the start and stop calls this run made, in order
TransitionCalls == SelectSeq(calls, LAMBDA c : c.op \in {"start", "stop"})

\* the requested names the workspace does not hold, in request order
RequestedAbsent == SelectSeq(app_names, LAMBDA n : ~remote[n].present)

\* the listing of this run has been taken and the workspace's set of apps is
\* still the one it showed
ListingCurrent ==
    \/ pc \in {"aborted_missing", "no_targets", "loop"}
    \/ pc = "finished" /\ ~drifted

\* the decision's terminal states, as the claims name them
DecisionTerminal(act) ==
    IF act = "start"
    THEN {<<"A","C","T","I","V","E">>, <<"S","T","A","R","T","I","N","G">>}
    ELSE {<<"S","T","O","P","P","E","D">>, <<"S","T","O","P","P","I","N","G">>}

KnownStates == DecisionTerminal("start") \cup DecisionTerminal("stop")

\* the state name an app reports: none, the enum member's name, or the text
\* of the state without its class prefix
ReportedName(app) ==
    IF app.compute_status.kind = "enum" THEN app.compute_status.text
    ELSE Remove(app.compute_status.text, COMPUTE_STATE_PREFIX)

ReportsState(app) == app.compute_status.status /\ app.compute_status.kind # "none"

\* the reported name is `known` in some letter case
SameIgnoringCase(app, known) == ReportsState(app) /\ Lower(ReportedName(app)) = Lower(known)

InTerminal(app, act) == \E k \in DecisionTerminal(act) : SameIgnoringCase(app, k)

NonTerminal(app) == ~InTerminal(app, action)

\* the targets among the first k that are not in a terminal state
NonTerminalTargets(k) == SelectSeq(SubSeq(target_apps, 1, k), NonTerminal)

CallsNaming(name) == {j \in 1..Len(TransitionCalls) : TransitionCalls[j].name = name}

\* C1: when a requested name is absent from the listing and ignoreMissing is
\* false, the run is abandoned: no start or stop call is made for any app,
\* the exit code is 1, apps_changed is 0 and the report's missing names are
\* exactly the absent requested names, in request order.
C1_MissingAborts ==
    (ListingCurrent /\ RequestedAbsent # <<>> /\ ~argv.ignore_missing_apps) =>
        /\ pc = "aborted_missing"
        /\ TransitionCalls = <<>>
        /\ returned = <<1>>
        /\ Len(emitted) = 1
        /\ emitted[1].exit_code = 1
        /\ emitted[1].apps_changed = 0
        /\ emitted[1].missing_apps = RequestedAbsent

\* a run abandoned although one requested app was found, and not in a
\* terminal state
C1_Witness ==
    /\ pc = "aborted_missing"
    /\ Len(app_names) = 2
    /\ Len(NonTerminalTargets(Len(target_apps))) = 1
    /\ ~argv.dry_run

\* C2 as stated: a run abandoned for missing names reports apps_evaluated = 0
C2_Original ==
    pc = "aborted_missing" => emitted[1].apps_evaluated = 0

\* C2: a run abandoned for missing names reports as apps_evaluated the number
\* of requested names that were found in the listing (0 only when none was).
C2_MissingEvaluated ==
    pc = "aborted_missing" =>
        emitted[1].apps_evaluated = Len(app_names) - Len(RequestedAbsent)

C2_Witness ==
    /\ pc = "aborted_missing"
    /\ emitted[1].apps_evaluated = 1

\* C3: in a non-dry run the loop makes, for the targets processed so far, one
\* call of the decision per target that is not in a terminal state, in
\* request order, whether or not earlier calls raised; and the run returns
\* only when every target has been processed, each non-terminal one called
\* exactly once.
C3_FailureIsolation ==
    (pc \in {"loop", "finished"} /\ ~argv.dry_run) =>
        /\ Len(TransitionCalls) = Len(NonTerminalTargets(idx - 1))
        /\ \A i \in 1..Len(TransitionCalls) :
              /\ TransitionCalls[i].name = NonTerminalTargets(idx - 1)[i].name
              /\ TransitionCalls[i].op = action
        /\ pc = "finished" =>
              /\ idx = Len(target_apps) + 1
              /\ \A i \in 1..Len(target_apps) :
                    Cardinality(CallsNaming(target_apps[i].name))
                        = IF NonTerminal(target_apps[i]) THEN 1 ELSE 0

\* the first call raised and the second target was still called
C3_Witness ==
    /\ pc = "finished"
    /\ Len(TransitionCalls) = 2
    /\ TransitionCalls[1].raised
    /\ ~TransitionCalls[2].raised

\* C4 as stated: in every dry run no call is made, and (read for the runs
\* that have found targets: the listing succeeded) apps_changed is the number
\* of found targets not in a terminal state, failures is 0 and the exit code 0
C4_Original ==
    argv.dry_run =>
        /\ TransitionCalls = <<>>
        /\ pc \in {"aborted_missing", "no_targets", "finished"} =>
              /\ emitted[1].apps_changed = Len(NonTerminalTargets(Len(target_apps)))
              /\ emitted[1].failures = 0
              /\ returned = <<0>>

\* C4: in a dry run no start or stop call is ever made; and when the listing
\* succeeded and the run was not abandoned for missing names, apps_changed is
\* the number of found targets not in a terminal state, failures is 0 and the
\* exit code is 0.
C4_DryRun ==
    argv.dry_run =>
        /\ TransitionCalls = <<>>
        /\ pc \in {"no_targets", "finished"} =>
              /\ emitted[1].apps_changed = Len(NonTerminalTargets(Len(target_apps)))
              /\ emitted[1].failures = 0
              /\ emitted[1].exit_code = 0
              /\ returned = <<0>>

\* one stopped app, decision start, dry run: apps_changed = 1, exit code 0
C4_Witness ==
    /\ pc = "finished"
    /\ argv.dry_run
    /\ action = "start"
    /\ Len(target_apps) = 1
    /\ target_apps[1].compute_status = EnumState(STOPPED)
    /\ emitted[1].apps_changed = 1
    /\ returned = <<0>>

BadHour(text) == ~ParseInt(text).ok \/ ParseInt(text).value \notin 0..23

BadHours == BadHour(argv.start_hour) \/ BadHour(argv.end_hour)

BadZone == argv.timezone \notin DOMAIN UTC_OFFSETS

BadNow == argv.now.given /\ ~argv.now.body_ok

BadDays == ~parse_active_days(argv.active_days).ok

\* the run has not gone past its arguments: no client, no call
NothingRemote == pc \in {"start", "usage_error"} /\ ~client /\ calls = <<>>

\* C5 as stated: with any invalid input, whatever the action override, the
\* client is not constructed and no list, start or stop call is made
C5_Original ==
    (BadHours \/ BadZone \/ BadNow \/ BadDays) => (~client /\ calls = <<>>)

\* C5: an hour that is malformed or outside 0..23, an unknown timezone and a
\* malformed instant keep the run from the remote whatever the action
\* override; a malformed or out-of-range weekday token does so when the
\* override is auto. With start or stop forced the active days are not
\* parsed, and such a token alone is no usage error.
C5_InvalidInput ==
    /\ (BadHours \/ BadZone \/ BadNow \/ (BadDays /\ argv.action = "auto"))
          => NothingRemote
    /\ (pc = "usage_error" /\ argv.action # "auto" /\ parse_app_names(argv.app_names) # <<>>)
          => (BadHours \/ BadZone \/ BadNow)

\* --active-days=7 (or another bad token) alone, with --action=auto: rejected
C5_Witness ==
    /\ pc = "usage_error"
    /\ BadDays /\ argv.action = "auto"
    /\ ~BadHours /\ ~BadZone /\ ~BadNow
    /\ returned = <<2>>

AllTerminal(targets, act) == \A i \in 1..Len(targets) : InTerminal(targets[i], act)

\* C6: a target already in a terminal state for the decision gets no call and
\* is counted neither as changed nor as failed: updated + failures is the
\* number of processed targets not in a terminal state. Hence two runs in
\* succession, the workspace unchanged in between and every target in a
\* terminal state, both report apps_changed = 0 and failures = 0.
C6_Idempotent ==
    /\ pc \in {"loop", "finished"} =>
          /\ \A i \in 1..(idx - 1) :
                ~NonTerminal(target_apps[i]) => CallsNaming(target_apps[i].name) = {}
          /\ updated + failures = Len(NonTerminalTargets(idx - 1))
    /\ (pc = "finished" /\ runs > 1 /\ ~history[runs - 1].drifted
        /\ AllTerminal(history[runs - 1].targets, action)) =>
          /\ history[runs - 1].summary.apps_changed = 0
          /\ history[runs - 1].summary.failures = 0
          /\ emitted[1].apps_changed = 0
          /\ emitted[1].failures = 0
          /\ TransitionCalls = <<>>

\* a second run over a target that was, and stayed, in a terminal state
C6_Witness ==
    /\ pc = "finished" /\ runs = 2 /\ ~history[1].drifted
    /\ ~argv.dry_run
    /\ target_apps # <<>>
    /\ AllTerminal(history[1].targets, action)
    /\ emitted[1].apps_changed = 0

\* C8: when the client cannot be loaded or constructed, or the listing call
\* fails, the run ends there: exit code 2, apps_evaluated = 0,
\* apps_changed = 0, and no start or stop call is made.
C8_ConnectionFailure ==
    /\ pc \in {"failed_import", "failed_client", "failed_list"} =>
          /\ returned = <<2>>
          /\ Len(emitted) = 1
          /\ emitted[1].exit_code = 2
          /\ emitted[1].apps_evaluated = 0
          /\ emitted[1].apps_changed = 0
          /\ TransitionCalls = <<>>
    /\ (calls # <<>> /\ calls[1].raised) => pc = "failed_list"

C8_Witness ==
    /\ pc = "failed_list"
    /\ calls[1].raised
    /\ remote[NameA] = Present(EnumState(STOPPED))
    /\ action = "start"

FailedCalls == SelectSeq(TransitionCalls, LAMBDA c : c.raised)

\* C9: a run that reaches the loop exits with 1 if a transition call failed
\* and with 0 otherwise (so a run whose targets were all skipped exits 0), and
\* the summary's exit_code is the returned exit code.
C9_ExitCode ==
    pc = "finished" =>
        /\ returned = <<IF FailedCalls # <<>> THEN 1 ELSE 0>>
        /\ Len(emitted) = 1
        /\ emitted[1].exit_code = returned[1]

\* one call failed, another succeeded: exit code 1
C9_Witness ==
    /\ pc = "finished"
    /\ Len(FailedCalls) = 1
    /\ Len(TransitionCalls) = 2
    /\ returned = <<1>>

\* C10: in a non-dry run a processed target that reports no state, or a state
\* name that is none of the known names in any letter case, has received the
\* decision's call, for start as for stop; and a target whose state name is,
\* in any letter case, one of the decision's terminal states has received none.
C10_UnknownState ==
    (pc \in {"loop", "finished"} /\ ~argv.dry_run) =>
        \A i \in 1..(idx - 1) :
            /\ (\A k \in KnownStates : ~SameIgnoringCase(target_apps[i], k))
                  => \E j \in CallsNaming(target_apps[i].name) :
                        TransitionCalls[j].op = action
            /\ InTerminal(target_apps[i], action) => CallsNaming(target_apps[i].name) = {}

\* decision start: lower-case "active" skipped, "ERROR" called
C10_Witness ==
    /\ pc = "finished" /\ ~argv.dry_run /\ action = "start"
    /\ Len(target_apps) = 2
    /\ target_apps[1].compute_status = EnumState(<<"a","c","t","i","v","e">>)
    /\ target_apps[2].compute_status = EnumState(<<"E","R","R","O","R">>)
    /\ Len(TransitionCalls) = 1
    /\ TransitionCalls[1].name = NameB

\* the start and stop calls that returned normally
ReturnedCalls == SelectSeq(TransitionCalls, LAMBDA c : ~c.raised)

\* the targets among the first k that are in a terminal state: the skipped
SkippedTargets(k) == SelectSeq(SubSeq(target_apps, 1, k), LAMBDA app : ~NonTerminal(app))

\* C11: at every point of the loop and at its end, with idx - 1 targets
\* processed, each processed target is counted once as skipped, changed or
\* failed: apps_changed + failures is the number of processed targets not in
\* a terminal state of the decision and never exceeds apps_evaluated (the
\* number of targets); failures counts exactly the transition calls that
\* raised and, outside a dry run, apps_changed exactly those that returned;
\* the summary reports these counts.
C11_CountingInvariant ==
    pc \in {"loop", "finished"} =>
        /\ idx - 1 <= Len(target_apps)
        /\ Len(SkippedTargets(idx - 1)) + updated + failures = idx - 1
        /\ updated + failures = Len(NonTerminalTargets(idx - 1))
        /\ updated + failures <= Len(target_apps)
        /\ failures = Len(FailedCalls)
        /\ ~argv.dry_run => updated = Len(ReturnedCalls)
        /\ pc = "finished" =>
              /\ emitted[1].apps_changed = updated
              /\ emitted[1].failures = failures
              /\ emitted[1].apps_evaluated = Len(target_apps)
              /\ emitted[1].apps_changed + emitted[1].failures
                    <= emitted[1].apps_evaluated

\* two targets, the first changed and the second's call raised: one counted
\* as changed, one as failed
C11_Witness ==
    /\ pc = "finished"
    /\ ~argv.dry_run
    /\ Len(target_apps) = 2
    /\ ~TransitionCalls[1].raised
    /\ TransitionCalls[2].raised
    /\ updated = 1
    /\ failures = 1
    /\ emitted[1].apps_evaluated = 2

====
